---- MODULE Spec2Model ----
(***************************************************************************)
(* Model of Lab_Agent.py: the probability sampler select_from_dist, the    *)
(* SmartphoneEnvironment, the SmartphoneAgent and the Simulation driver.   *)
(*                                                                         *)
(* Numbers.  The sampler works on Python floats in [0, 1]; they are kept   *)
(* here as IEEE-754 binary64 values, exactly: a value is a pair <<hi, lo>> *)
(* that stands for (hi * 2^28 + lo) * 2^-55, and a subtraction rounds its  *)
(* result to 53 significant bits, ties to even, as the hardware does.      *)
(* Prices are integers (the noise draws of the model are whole numbers).   *)
(* average_price is an exact decimal number: [whole, frac] stands for      *)
(* whole + 0.frac, frac being the sequence of its decimal digits without   *)
(* trailing zeros; each update by the factor 0.1 adds one digit.           *)
(***************************************************************************)
EXTENDS Integers, Sequences, FiniteSets

VARIABLES
    item_prob_dist,  \* select_from_dist: the distribution of the last call
    ranreal,         \* select_from_dist: the draw random.random() of the last call
    selected,        \* select_from_dist: how the last call ended
    time,            \* SmartphoneEnvironment.time
    stock,           \* SmartphoneEnvironment.stock
    price,           \* SmartphoneEnvironment.price
    stock_history,   \* SmartphoneEnvironment.stock_history
    price_history,   \* SmartphoneEnvironment.price_history
    daily_sales,     \* do_action: the units sold in the last call
    draws,           \* the draws of random.random() and random.gauss() that
                     \* the completed do_action calls have used, in order
    average_price,   \* SmartphoneAgent.average_price, an exact decimal
    buy_history,     \* SmartphoneAgent.buy_history
    total_spent,     \* SmartphoneAgent.total_spent
    percept,         \* Simulation.percept
    steps,           \* Simulation.run: the argument of the last call
    action,          \* Simulation.run: the action of the current iteration
    remaining,       \* Simulation.run: iterations of range(steps) still to do
    pc               \* Simulation.run: position of the driver

samplerVars == <<item_prob_dist, ranreal, selected>>
envVars     == <<time, stock, price, stock_history, price_history, daily_sales>>
agentVars   == <<average_price, buy_history, total_spent>>
driverVars  == <<percept, steps, action, remaining, pc>>
vars        == <<samplerVars, envVars, draws, agentVars, driverVars>>

----------------------------------------------------------------------------
(* Bounds of the model.                                                    *)

MaxSteps     == 4   \* iterations the driver makes in all
MaxCalls     == 6   \* do_action calls of the environment on its own
MaxQuiet     == 11  \* do_action calls of the noise-free environment
MaxDecisions == 2   \* select_action calls of the agent on its own
NoiseMax     == 40  \* largest noise draw, in units of price
MaxSlump     == 21  \* iterations the driver makes in a slump
QuietCalls   == 5   \* do_action calls of a slump before the noise stays low
MaxOpen      == 3   \* do_action calls a client makes on its own
MaxLoop      == 8   \* iterations of the one long run

----------------------------------------------------------------------------
(* binary64 values in [0, 1], in units of 2^-55.                           *)

Limb == 2^28

Dbl(hi, lo) == <<hi, lo>>

FZero == Dbl(0, 0)
FOne  == Dbl(2^27, 0)

FLess(a, b) == a[1] < b[1] \/ (a[1] = b[1] /\ a[2] < b[2])

FLeq(a, b) == a = b \/ FLess(a, b)

\* a + b in exact arithmetic
FExactAdd(a, b) ==
    IF a[2] + b[2] >= Limb
    THEN <<a[1] + b[1] + 1, a[2] + b[2] - Limb>>
    ELSE <<a[1] + b[1], a[2] + b[2]>>

\* a - b in exact arithmetic, for a >= b
FExactSub(a, b) ==
    IF a[2] >= b[2]
    THEN <<a[1] - b[1], a[2] - b[2]>>
    ELSE <<a[1] - b[1] - 1, a[2] + Limb - b[2]>>

\* the spacing of binary64 values around x, in units of 2^-55
FUlp(x) == IF x[1] >= 2^26 THEN 4 ELSE IF x[1] >= 2^25 THEN 2 ELSE 1

\* x rounded to 53 significant bits, ties to the even significand
FRound(x) ==
    LET q    == FUlp(x)
        rem  == x[2] % q
        base == x[2] - rem
        up   == 2 * rem > q \/ (2 * rem = q /\ (base \div q) % 2 = 1)
        lo   == IF up THEN base + q ELSE base
    IN  IF lo = Limb THEN <<x[1] + 1, 0>> ELSE <<x[1], lo>>

\* the float subtraction a - b, for a >= b
FSub(a, b) == FRound(FExactSub(a, b))

----------------------------------------------------------------------------
(* select_from_dist.  A distribution is the sequence of the dictionary's   *)
(* (item, probability) entries in insertion order.                         *)

NotCalled   == [status |-> "none", item |-> 0]
Returned(i) == [status |-> "returned", item |-> i]
Raised      == [status |-> "raised", item |-> 0]

\* the loop of select_from_dist from entry i on, r being ranreal there
RECURSIVE SelectFrom(_, _, _)
SelectFrom(dist, i, r) ==
    IF i > Len(dist) THEN Raised
    ELSE IF FLess(r, dist[i].prob) THEN Returned(dist[i].item)
    ELSE SelectFrom(dist, i + 1, FSub(r, dist[i].prob))

select_from_dist(dist, r) == SelectFrom(dist, 1, r)

\* binary64 literals: 0.2, 0.3, 0.5, 0.7, 0.25, 2^-54, 1 - 2^-52
P02   == Dbl(26843545, 161061274)
P03   == Dbl(40265318, 107374182)
P05   == Dbl(2^26, 0)
P07   == Dbl(93952409, 161061272)
P025  == Dbl(2^25, 0)
PTiny == Dbl(0, 2)
PBig  == Dbl(2^27 - 1, Limb - 8)

Entry(i, p) == [item |-> i, prob |-> p]

\* the distribution of daily sales in do_action: {3: 0.2, 5: 0.3, 7: 0.3, 10: 0.2}
SalesDist == <<Entry(3, P02), Entry(5, P03), Entry(7, P03), Entry(10, P02)>>

\* the distributions a caller hands to select_from_dist
Dists ==
    { SalesDist,
      <<Entry(1, P05), Entry(2, P05)>>,
      <<Entry(1, P025), Entry(2, P025), Entry(3, P05)>>,
      <<Entry(1, P03), Entry(2, P07)>>,
      <<Entry(1, P07), Entry(2, P03)>>,
      <<Entry(1, FZero), Entry(2, FOne)>>,
      <<Entry(1, PTiny), Entry(2, PTiny), Entry(3, PTiny), Entry(4, PTiny),
        Entry(5, PBig)>>,
      <<Entry(1, P02), Entry(2, P02), Entry(3, P05)>>,
      <<Entry(1, P025), Entry(2, P05)>>,
      <<Entry(1, P05)>>,
      <<Entry(1, P03), Entry(2, P03), Entry(3, P03)>> }

\* values random.random() can return: multiples of 2^-53 in [0, 1)
Draws ==
    { FZero,
      Dbl(26843545, 161061272), Dbl(26843545, 161061276),     \* around 0.2
      Dbl(2^25 - 1, Limb - 4), Dbl(2^25, 0),                  \* around 0.25
      Dbl(53687091, 53687088), Dbl(53687091, 53687092),       \* around 0.4
      Dbl(2^26 - 1, Limb - 4), Dbl(2^26, 0),                  \* around 0.5
      Dbl(93952409, 161061268), Dbl(93952409, 161061272),     \* around 0.7
      Dbl(3 * 2^25 - 1, Limb - 4), Dbl(3 * 2^25, 0),          \* around 0.75
      Dbl(107374182, 107374180), Dbl(107374182, 107374184),   \* around 0.8
      Dbl(120795955, 53687088), Dbl(120795955, 53687092),     \* around 0.9
      Dbl(2^27 - 1, Limb - 8), Dbl(2^27 - 1, Limb - 4) }      \* 1 - 2^-52, 1 - 2^-53

\* a call of select_from_dist on its own
Sample(dist, r) ==
    /\ item_prob_dist' = dist
    /\ ranreal' = r
    /\ selected' = select_from_dist(dist, r)
    /\ UNCHANGED <<envVars, draws, agentVars, driverVars>>

----------------------------------------------------------------------------
(* SmartphoneEnvironment                                                   *)

price_delta == <<10, -20, 5, -15, 0, 25, -30, 20, -5, 0>>

Max(a, b) == IF a >= b THEN a ELSE b

\* the stock update without its clamp
NewStockUnclamped(old, bought, sold) == old + bought - sold

\* self.stock = max(0, self.stock + bought - daily_sales)
NewStock(old, bought, sold) == Max(0, old + bought - sold)

\* the price update indexing price_delta by the time before the increment
NewPriceStaleTime(old, now, g) ==
    old + price_delta[((now - 1) % Len(price_delta)) + 1] + g

\* self.price += self.price_delta[self.time % len(self.price_delta)] + gauss,
\* now being self.time after self.time += 1
NewPrice(old, now, g) == old + price_delta[(now % Len(price_delta)) + 1] + g

\* history.insert(0, value)
RecordedInFront(history, value) == <<value>> \o history

\* history.append(value)
Recorded(history, value) == Append(history, value)

initial_percept == [price |-> price, stock |-> stock]

\* do_action with a price that also moves with the order and the sales
do_action_priced_by_demand(act, r, g) ==
    LET sold   == select_from_dist(SalesDist, r)
        bought == act.buy
        now    == time + 1
    IN  /\ item_prob_dist' = SalesDist
        /\ ranreal' = r
        /\ selected' = sold
        /\ IF sold.status = "raised"
           THEN UNCHANGED <<envVars, draws>>
           ELSE /\ draws' = Append(draws, [sales |-> r, noise |-> g])
                /\ daily_sales' = sold.item
                /\ stock' = NewStock(stock, bought, sold.item)
                /\ time' = now
                /\ price' = NewPrice(price, now, g) + bought - sold.item
                /\ stock_history' = Recorded(stock_history, stock')
                /\ price_history' = Recorded(price_history, price')

\* do_action(action) with the draw r of the sampler and the draw g of
\* random.gauss; a sampler that raises leaves the environment as it was
do_action(act, r, g) ==
    LET sold   == select_from_dist(SalesDist, r)
        bought == act.buy
        now    == time + 1
    IN  /\ item_prob_dist' = SalesDist
        /\ ranreal' = r
        /\ selected' = sold
        /\ IF sold.status = "raised"
           THEN UNCHANGED <<envVars, draws>>
           ELSE /\ draws' = Append(draws, [sales |-> r, noise |-> g])
                /\ daily_sales' = sold.item
                /\ stock' = NewStock(stock, bought, sold.item)
                /\ time' = now
                /\ price' = NewPrice(price, now, g)
                /\ stock_history' = Recorded(stock_history, stock')
                /\ price_history' = Recorded(price_history, price')

----------------------------------------------------------------------------
(* SmartphoneAgent                                                         *)

\* exact decimals: whole + 0.frac, whole being the floor of the value
Dec(w, f) == [whole |-> w, frac |-> f]

DecInt(n) == Dec(n, <<>>)

\* f without its trailing zeros
RECURSIVE Stripped(_)
Stripped(f) ==
    IF f = <<>> THEN f
    ELSE IF f[Len(f)] = 0 THEN Stripped(SubSeq(f, 1, Len(f) - 1)) ELSE f

\* the digits of k * 0.f and the carry into the whole part, for k in 0..10
RECURSIVE DigitsTimes(_, _)
DigitsTimes(k, f) ==
    IF f = <<>> THEN [digits |-> <<>>, carry |-> 0]
    ELSE LET rest == DigitsTimes(k, Tail(f))
             v    == k * Head(f) + rest.carry
         IN  [digits |-> <<v % 10>> \o rest.digits, carry |-> v \div 10]

\* k * x, for k in 0..10
DecTimes(k, x) ==
    LET t == DigitsTimes(k, x.frac)
    IN  Dec(k * x.whole + t.carry, Stripped(t.digits))

\* x + n, n an integer
DecPlus(x, n) == Dec(x.whole + n, x.frac)

\* x / 10
DecTenth(x) == Dec(x.whole \div 10, Stripped(<<x.whole % 10>> \o x.frac))

\* n < x, n an integer
IntLessDec(n, x) == n < x.whole \/ (n = x.whole /\ x.frac # <<>>)

\* average_price += (current_price - average_price) * 0.1, which is
\* (9 * average_price + current_price) / 10
UpdatedAverage(avg, current_price) ==
    DecTenth(DecPlus(DecTimes(9, avg), current_price))

\* current_price < 0.8 * avg, which is 10 * current_price < 8 * avg
BelowAverage(current_price, avg) ==
    IntLessDec(10 * current_price, DecTimes(8, avg))

\* the decision with the discount branch taken from a stock of 10 on
TobuyFromTen(current_price, current_stock, avg) ==
    IF BelowAverage(current_price, avg) /\ current_stock >= 10
    THEN 15
    ELSE IF current_stock < 10 THEN 10 ELSE 0

\* the decision without its replenishment branch
TobuyDiscountOnly(current_price, current_stock, avg) ==
    IF BelowAverage(current_price, avg) /\ current_stock > 10 THEN 15 ELSE 0

\* the decision of select_action, avg being the updated average_price
Tobuy(current_price, current_stock, avg) ==
    IF BelowAverage(current_price, avg) /\ current_stock > 10
    THEN 15
    ELSE IF current_stock < 10 THEN 10 ELSE 0

\* self.total_spent = tobuy * current_price
SpentOverwritten(total, tobuy, current_price) == tobuy * current_price

\* self.total_spent += tobuy
SpentUnpriced(total, tobuy, current_price) == total + tobuy

\* self.total_spent += tobuy * current_price
Spent(total, tobuy, current_price) == total + tobuy * current_price

\* select_action deciding against the average_price it had before the update
select_action_stale(p) ==
    /\ average_price' = UpdatedAverage(average_price, p.price)
    /\ total_spent' =
           Spent(total_spent, Tobuy(p.price, p.stock, average_price), p.price)
    /\ buy_history' =
           Append(buy_history, Tobuy(p.price, p.stock, average_price))

\* select_action(percept); it returns {"buy": the last entry of buy_history}
select_action(p) ==
    LET current_price == p.price
        current_stock == p.stock
        avg           == UpdatedAverage(average_price, current_price)
        tobuy         == Tobuy(current_price, current_stock, avg)
    IN  /\ average_price' = avg
        /\ total_spent' = Spent(total_spent, tobuy, current_price)
        /\ buy_history' = Append(buy_history, tobuy)

Last(h) == h[Len(h)]

----------------------------------------------------------------------------
(* The state after SmartphoneEnvironment(), SmartphoneAgent() and          *)
(* Simulation(agent, environment).                                         *)

Init ==
    /\ item_prob_dist = <<>>
    /\ ranreal = FZero
    /\ selected = NotCalled
    /\ time = 0
    /\ stock = 50
    /\ price = 600
    /\ stock_history = <<50>>
    /\ price_history = <<600>>
    /\ daily_sales = 0
    /\ draws = <<>>
    /\ average_price = DecInt(600)
    /\ buy_history = <<>>
    /\ total_spent = 0
    /\ percept = initial_percept
    /\ steps = 0
    /\ action = [buy |-> 0]
    /\ remaining = 0
    /\ pc = "idle"

----------------------------------------------------------------------------
(* Simulation.run                                                          *)

\* draws of random.random() in do_action: 0, 0.25, 0.5 and 0.9
SalesDraws == {FZero, Dbl(2^25, 0), Dbl(2^26, 0), Dbl(120795955, 53687092)}

\* draws of random.gauss(0, noise_sd)
Noise == {-NoiseMax, 0, NoiseMax}

\* run(steps) going back to the first recorded price and stock as its percept
RunFromFirstPercept(n) ==
    /\ pc = "idle"
    /\ steps' = n
    /\ remaining' = n
    /\ pc' = "for"
    /\ percept' = [price |-> price_history[1], stock |-> stock_history[1]]
    /\ UNCHANGED <<samplerVars, envVars, draws, agentVars, action>>

\* run(steps) is called
Run(n) ==
    /\ pc = "idle"
    /\ steps' = n
    /\ remaining' = n
    /\ pc' = "for"
    /\ UNCHANGED <<samplerVars, envVars, draws, agentVars, percept, action>>

\* the loop body entered without asking whether range(steps) has an entry left
RunSelectUnasked ==
    /\ pc = "for"
    /\ select_action(percept)
    /\ action' = [buy |-> Last(buy_history')]
    /\ pc' = "act"
    /\ UNCHANGED <<samplerVars, envVars, draws, percept, steps, remaining>>

\* action = self.agent.select_action(self.percept)
RunSelect ==
    /\ pc = "for"
    /\ remaining > 0
    /\ select_action(percept)
    /\ action' = [buy |-> Last(buy_history')]
    /\ pc' = "act"
    /\ UNCHANGED <<samplerVars, envVars, draws, percept, steps, remaining>>

\* self.environment.do_action(action), the percept it returns being dropped
RunActDropsPercept(r, g) ==
    /\ pc = "act"
    /\ do_action(action, r, g)
    /\ IF selected'.status = "raised"
       THEN pc' = "raised" /\ UNCHANGED remaining
       ELSE remaining' = remaining - 1 /\ pc' = "for"
    /\ UNCHANGED <<agentVars, percept, steps, action>>

\* self.percept = self.environment.do_action(action)
RunAct(r, g) ==
    /\ pc = "act"
    /\ do_action(action, r, g)
    /\ IF selected'.status = "raised"
       THEN pc' = "raised" /\ UNCHANGED <<percept, remaining>>
       ELSE /\ percept' = [price |-> price', stock |-> stock']
            /\ remaining' = remaining - 1
            /\ pc' = "for"
    /\ UNCHANGED <<agentVars, steps, action>>

\* run returning one iteration before range(steps) is exhausted
RunReturnEarly ==
    /\ pc = "for"
    /\ remaining <= 1
    /\ pc' = "idle"
    /\ UNCHANGED <<samplerVars, envVars, draws, agentVars, percept, steps, action,
                   remaining>>

\* range(steps) is exhausted
RunReturn ==
    /\ pc = "for"
    /\ remaining = 0
    /\ pc' = "idle"
    /\ UNCHANGED <<samplerVars, envVars, draws, agentVars, percept, steps, action,
                   remaining>>

RunCall == \E n \in 0..(MaxSteps - time) : Run(n)

RunStep == \E r \in SalesDraws, g \in Noise : RunAct(r, g)

Next == RunCall \/ RunSelect \/ RunStep \/ RunReturn

Spec == Init /\ [][Next]_vars

----------------------------------------------------------------------------
(* The driver on a fresh simulation: run is called on the state that the   *)
(* constructors leave.                                                     *)

FreshCall == \E n \in 0..MaxSteps : time = 0 /\ Run(n)

FreshNext == FreshCall \/ RunSelect \/ RunStep \/ RunReturn

SpecFresh == Init /\ [][FreshNext]_vars

----------------------------------------------------------------------------
(* The driver in a slump: every day sells 10 units, and after the first    *)
(* QuietCalls days every noise draw is -NoiseMax.                          *)

SlumpNoise == IF time < QuietCalls THEN {-NoiseMax, 0} ELSE {-NoiseMax}

SlumpCall == \E n \in 0..(MaxSlump - time) : Run(n)

SlumpStep == \E g \in SlumpNoise : RunAct(Dbl(120795955, 53687092), g)

SlumpNext == SlumpCall \/ RunSelect \/ SlumpStep \/ RunReturn

SpecSlump == Init /\ [][SlumpNext]_vars

----------------------------------------------------------------------------
(* One run of MaxLoop iterations on a fresh simulation, with every sales    *)
(* outcome on every day; the noise is that of the first day, -NoiseMax or  *)
(* 0, on all days.                                                         *)

LoopNoise == IF draws = <<>> THEN {-NoiseMax, 0} ELSE {draws[1].noise}

LoopCall == time = 0 /\ Run(MaxLoop)

LoopStep == \E r \in SalesDraws, g \in LoopNoise : RunAct(r, g)

LoopNext == LoopCall \/ RunSelect \/ LoopStep \/ RunReturn

SpecLoop == Init /\ [][LoopNext]_vars

----------------------------------------------------------------------------
(* select_from_dist called on its own.                                     *)

SampleCall == \E dist \in Dists, r \in Draws : Sample(dist, r)

SpecSampler == Init /\ [][SampleCall]_vars

----------------------------------------------------------------------------
(* The environment on its own: do_action called with any action whose buy  *)
(* is not negative.                                                        *)

Buys == {0, 10}

EnvCall(b, r, g) ==
    /\ action' = [buy |-> b]
    /\ do_action(action', r, g)
    /\ UNCHANGED <<agentVars, percept, steps, remaining, pc>>

EnvStep == \E b \in Buys, r \in SalesDraws : time < MaxCalls /\ EnvCall(b, r, 0)

SpecEnv == Init /\ [][EnvStep]_vars

\* the noise-free environment, over more than one period of price_delta
QuietDraws == {FZero, Dbl(120795955, 53687092)}

QuietStep == \E r \in QuietDraws : time < MaxQuiet /\ EnvCall(0, r, 0)

SpecQuiet == Init /\ [][QuietStep]_vars

----------------------------------------------------------------------------
(* The agent on its own: select_action called with any percept.            *)

Prices == {-50, 0, 400, 450, 464, 465, 472, 500, 600, 700}

Stocks == {0, 9, 10, 11, 20, 50}

Decide(p) ==
    /\ percept' = p
    /\ select_action(p)
    /\ action' = [buy |-> Last(buy_history')]
    /\ UNCHANGED <<samplerVars, envVars, draws, steps, remaining, pc>>

AgentStep ==
    \E current_price \in Prices, current_stock \in Stocks :
        /\ Len(buy_history) < MaxDecisions
        /\ Decide([price |-> current_price, stock |-> current_stock])

SpecAgent == Init /\ [][AgentStep]_vars

----------------------------------------------------------------------------
(* A client other than Simulation.run: it calls initial_percept,           *)
(* select_action and do_action in any order, keeps the percept it read     *)
(* last and passes any order to do_action.                                 *)

OpenNoise == {-NoiseMax, NoiseMax}

\* initial_percept() appending what it reads to the histories
OpenObserveRecording ==
    /\ percept' = initial_percept
    /\ price_history' = Recorded(price_history, price)
    /\ stock_history' = Recorded(stock_history, stock)
    /\ UNCHANGED <<samplerVars, time, stock, price, daily_sales, draws,
                   agentVars, steps, action, remaining, pc>>

\* percept = environment.initial_percept()
OpenObserve ==
    /\ percept' = initial_percept
    /\ UNCHANGED <<samplerVars, envVars, draws, agentVars, steps, action,
                   remaining, pc>>

\* action = agent.select_action(percept)
OpenDecide ==
    /\ Len(buy_history) < MaxDecisions
    /\ select_action(percept)
    /\ action' = [buy |-> Last(buy_history')]
    /\ UNCHANGED <<samplerVars, envVars, draws, percept, steps, remaining, pc>>

\* environment.do_action({"buy": b})
OpenAct ==
    \E b \in Buys, r \in QuietDraws, g \in OpenNoise :
        time < MaxOpen /\ EnvCall(b, r, g)

OpenNext == OpenObserve \/ OpenDecide \/ OpenAct

SpecOpen == Init /\ [][OpenNext]_vars

----------------------------------------------------------------------------
(* Properties of the environment.                                          *)

\* C1: the stock is never negative: after any sequence of do_action calls
\* with buy >= 0 and any daily sales, stock >= 0 and so is every entry of
\* stock_history.
StockNeverNegative ==
    /\ stock >= 0
    /\ \A i \in 1..Len(stock_history) : stock_history[i] >= 0

\* a do_action call in which more was sold than the stock and the order held
SalesLostAtZero ==
    /\ time > 0
    /\ stock = 0
    /\ stock_history[Len(stock_history) - 1] + action.buy - daily_sales < 0

\* C2: after construction and after any sequence of do_action calls the two
\* histories have time + 1 entries each, and their last entries are the
\* current price and the current stock.
HistoriesTrackState ==
    /\ Len(price_history) = time + 1
    /\ Len(stock_history) = time + 1
    /\ Last(price_history) = price
    /\ Last(stock_history) = stock

\* three do_action calls have been recorded and both price and stock moved
ThreeStepsRecorded ==
    /\ time = 3
    /\ Len(price_history) = 4
    /\ price_history[3] # price
    /\ stock_history[3] # stock

----------------------------------------------------------------------------
(* Properties of the agent.                                                *)

\* C3, as claimed: no select_action call leaves total_spent lower than it
\* was before the call.
TotalSpentNeverDecreases == [][total_spent' >= total_spent]_vars

\* C3, amended: no select_action call whose percept has a price >= 0 leaves
\* total_spent lower than it was before the call.
SpentGrowsAtNonNegativePrices ==
    [][percept'.price >= 0 => total_spent' >= total_spent]_vars

\* a purchase at a positive price has been added to total_spent
PaidPurchase ==
    /\ Len(buy_history) > 0
    /\ Last(buy_history) > 0
    /\ percept.price > 0
    /\ total_spent > 0

\* the sum of buy_history[i] * price_history[i + offset] over the first n decisions
RECURSIVE CostSum(_, _)
CostSum(n, offset) ==
    IF n = 0 THEN 0
    ELSE CostSum(n - 1, offset) + buy_history[n] * price_history[n + offset]

\* C4: total_spent is the sum over the decisions of the units ordered times
\* the price of the percept the decision was made on, which is the price
\* recorded before that step's do_action.
SpentIsSumOfObservedCosts == total_spent = CostSum(Len(buy_history), 0)

\* a run in which valuing the orders at the price after the update would
\* give another total
ValuedAtObservedPrice ==
    /\ pc = "for"
    /\ Len(buy_history) > 0
    /\ total_spent > 0
    /\ total_spent # CostSum(Len(buy_history), 1)

\* C9: select_action first updates average_price by
\* avg += (price - avg) * 0.1 and then decides against the updated average:
\* 15 if price < 0.8 * updated average and stock > 10, otherwise 10 if
\* stock < 10, otherwise 0; so the order is 0, 10 or 15, a price dip with
\* stock < 10 orders 10, and price 400, stock 20 after an average of 600
\* orders 15 with the average at 580.
DecidesOnUpdatedAverage ==
    [][Len(buy_history') = Len(buy_history) + 1 =>
        LET p    == percept'.price
            s    == percept'.stock
            upd  == average_price'
            dip  == IntLessDec(5 * p, DecTimes(4, upd))
            tobuy == Last(buy_history')
        IN  /\ DecTimes(10, upd) = DecPlus(DecTimes(9, average_price), p)
            /\ tobuy = IF dip /\ s > 10 THEN 15 ELSE IF s < 10 THEN 10 ELSE 0
            /\ tobuy \in {0, 10, 15}
            /\ dip /\ s < 10 => tobuy = 10
            /\ average_price = DecInt(600) /\ p = 400 /\ s = 20 =>
                   tobuy = 15 /\ upd = DecInt(580)]_vars

\* the first decision, on price 400 and stock 20, ordered 15
DiscountOrderPlaced ==
    /\ Len(buy_history) = 1
    /\ percept = [price |-> 400, stock |-> 20]
    /\ average_price = DecInt(580)
    /\ Last(buy_history) = 15

\* C10: a decision on a percept with stock = 10 orders 0 units, whatever the
\* price and whatever the average_price before the call.
NoOrderAtStockTen ==
    Len(buy_history) > 0 /\ percept.stock = 10 => Last(buy_history) = 0

\* a decision on stock 10 at a price below 0.8 of the updated average
DipAtStockTen ==
    /\ Len(buy_history) > 0
    /\ percept.stock = 10
    /\ percept.price = 400
    /\ IntLessDec(5 * percept.price, DecTimes(4, average_price))
    /\ Last(buy_history) = 0

----------------------------------------------------------------------------
(* Properties of the price.                                                *)

\* the sum of price_delta[t mod 10] for t = 1..n
RECURSIVE DeltaSum(_)
DeltaSum(n) ==
    IF n = 0 THEN 0 ELSE DeltaSum(n - 1) + price_delta[(n % 10) + 1]

\* C8: with the noise at 0 the n-th do_action call adds price_delta[n mod 10]:
\* the price is 580 after one call, 600 plus the sum of price_delta[t mod 10]
\* for t = 1..n after n calls, and price_delta[0] = 10 is added by the 10th
\* call and by none before it.
QuietPriceFollowsDeltas ==
    /\ price = 600 + DeltaSum(time)
    /\ time >= 1 => price_history[2] = 580
    /\ \A n \in 1..time :
        /\ price_history[n + 1] = 600 + DeltaSum(n)
        /\ n < 10 => price_history[n + 1] - price_history[n] # 10
        /\ n = 10 => price_history[n + 1] - price_history[n] = 10

\* ten noise-free calls have been made and the tenth added price_delta[0]
TenthCallAddsFirstDelta ==
    /\ time = 10
    /\ price = 590
    /\ price_history[11] - price_history[10] = 10

----------------------------------------------------------------------------
(* Properties of the sampler, in exact arithmetic on the probabilities.    *)

Called == selected.status # "none"

\* the sum of the first n probabilities of dist
RECURSIVE Cumulative(_, _)
Cumulative(dist, n) ==
    IF n = 0 THEN FZero ELSE FExactAdd(Cumulative(dist, n - 1), dist[n].prob)

Total(dist) == Cumulative(dist, Len(dist))

NonNegative(dist) == \A i \in 1..Len(dist) : FLeq(FZero, dist[i].prob)

\* the entries k with Cumulative(k - 1) <= r < Cumulative(k)
Covering(dist, r) ==
    { k \in 1..Len(dist) :
        FLeq(Cumulative(dist, k - 1), r) /\ FLess(r, Cumulative(dist, k)) }

\* C5: for a distribution whose probabilities are non-negative and sum to 1
\* and for every draw in [0, 1), the sampler returns an outcome of the
\* distribution and does not raise.
UnitDistributionAlwaysSelects ==
    Called /\ NonNegative(item_prob_dist) /\ Total(item_prob_dist) = FOne =>
        /\ selected.status = "returned"
        /\ \E k \in 1..Len(item_prob_dist) : item_prob_dist[k].item = selected.item

\* C6: for a distribution whose non-negative probabilities sum to less than
\* 1, the sampler raises exactly when the draw is at least that sum.
DeficientDistributionRaisesFromSum ==
    Called /\ NonNegative(item_prob_dist) /\ FLess(Total(item_prob_dist), FOne) =>
        (selected.status = "raised" <=> FLeq(Total(item_prob_dist), ranreal))

\* C7: the sampler returns the first outcome k, in insertion order, for
\* which the sum of the probabilities before k is <= the draw and the draw
\* is < that sum plus the probability of k.
SelectsByCumulativeThreshold ==
    Called =>
        LET ks == Covering(item_prob_dist, ranreal)
        IN  /\ ks # {} =>
                LET first == CHOOSE k \in ks : \A j \in ks : k <= j
                IN  selected = Returned(item_prob_dist[first].item)
            /\ ks = {} => selected.status # "returned"

----------------------------------------------------------------------------
(* Properties of the driver.                                               *)

\* C11: run(n) on a fresh simulation makes exactly n select_action calls,
\* each followed at once by one do_action call with the action just
\* returned, and does not stop early: after it time = n, buy_history has n
\* entries and both environment histories have n + 1; between iterations
\* buy_history is one entry shorter than the environment histories.
RunAlternatesToTheEnd ==
    /\ [](/\ pc = "idle" =>
                /\ time = steps
                /\ Len(buy_history) = steps
                /\ Len(price_history) = steps + 1
                /\ Len(stock_history) = steps + 1
          /\ pc = "for" =>
                /\ time = steps - remaining
                /\ Len(buy_history) = time
                /\ Len(price_history) = Len(buy_history) + 1
                /\ Len(stock_history) = Len(buy_history) + 1
          /\ pc = "act" =>
                /\ Len(buy_history) = time + 1
                /\ action.buy = Last(buy_history))
    /\ [][/\ Len(buy_history') # Len(buy_history) =>
                /\ Len(buy_history') = Len(buy_history) + 1
                /\ pc = "for" /\ pc' = "act"
                /\ time' = time
          /\ time' # time =>
                /\ time' = time + 1
                /\ pc = "act" /\ pc' = "for"
                /\ Len(buy_history') = Len(buy_history)
                /\ stock' = NewStock(stock, Last(buy_history), daily_sales')
          /\ pc = "for" /\ pc' = "idle" => remaining = 0 /\ time = steps
      ]_vars

\* run(3) has returned on a fresh simulation
ThreeIterationsRun ==
    /\ pc = "idle"
    /\ steps = 3
    /\ time = 3
    /\ Len(buy_history) = 3

\* C12: run(0) on a fresh simulation changes nothing: during and after it
\* buy_history is empty, price_history is [600], stock_history is [50],
\* time is 0, average_price is 600, total_spent is 0 and the stored percept
\* is price 600, stock 50.
RunZeroChangesNothing ==
    steps = 0 =>
        /\ buy_history = <<>>
        /\ price_history = <<600>>
        /\ stock_history = <<50>>
        /\ time = 0
        /\ average_price = DecInt(600)
        /\ total_spent = 0
        /\ percept = [price |-> 600, stock |-> 50]

\* run(0) has been called and has no iteration to make
RunZeroCalled ==
    /\ pc = "for"
    /\ steps = 0
    /\ remaining = 0

----------------------------------------------------------------------------
(* Frame properties.  A do_action call is the step that uses a pair of     *)
(* draws, a select_action call the step that appends to buy_history.       *)

\* C13: time, stock, price and the two histories are changed by do_action
\* only: initial_percept and select_action leave them as they were, and
\* do_action leaves average_price, buy_history and total_spent as they were.
OnlyDoActionChangesEnvironment ==
    [][/\ <<time, stock, price, stock_history, price_history>>' #
             <<time, stock, price, stock_history, price_history>> =>
                draws' # draws
       /\ buy_history' # buy_history => envVars' = envVars
       /\ draws' # draws => agentVars' = agentVars
      ]_vars

\* the agent has decided, the environment has acted, and then
\* initial_percept was read: the percept is the state do_action left
ReadAfterDecisionAndAction ==
    /\ time = 2
    /\ Len(buy_history) = 2
    /\ average_price # DecInt(600)
    /\ percept = [price |-> price, stock |-> stock]
    /\ percept # [price |-> 600, stock |-> 50]

----------------------------------------------------------------------------
(* Properties of the closed loop.                                          *)

\* the units sold by the i-th do_action call
Sold(i) == select_from_dist(SalesDist, draws[i].sales).item

\* C15: in the loop of run, started from stock 50, the clamp of the stock
\* update never cuts anything off: for every step i,
\* stock_history[i] + buy_history[i] - sales_i >= 0, and it is the next
\* entry of stock_history.
ClampNeverCuts ==
    \A i \in 1..time :
        /\ stock_history[i] + buy_history[i] - Sold(i) >= 0
        /\ stock_history[i + 1] = stock_history[i] + buy_history[i] - Sold(i)

\* a day that began with fewer than 10 units sold 10: the order of 10 met it
LowStockMeetsTopSales ==
    /\ time > 0
    /\ stock_history[time] < 10
    /\ buy_history[time] = 10
    /\ daily_sales = 10
    /\ stock = stock_history[time]

\* C16: between the iterations of run, after construction and after any
\* number of run calls, the stored percept is the current state of the
\* environment, which is the last entry of each history; so the i-th
\* decision is made on the i-th entries of price_history and stock_history.
PerceptIsCurrentState ==
    /\ pc \in {"idle", "for"} =>
        /\ percept.price = price
        /\ price = Last(price_history)
        /\ percept.stock = stock
        /\ stock = Last(stock_history)
    /\ pc = "act" =>
        LET i == Len(buy_history)
        IN  /\ percept = [price |-> price_history[i], stock |-> stock_history[i]]
            /\ buy_history[i] =
                   Tobuy(price_history[i], stock_history[i], average_price)

\* a second run call is about to decide on what the first one left
SecondRunDecides ==
    /\ pc = "for"
    /\ steps = 1
    /\ remaining = 1
    /\ time = 2
    /\ percept # [price |-> 600, stock |-> 50]

----------------------------------------------------------------------------
(* Independence of the price from the orders.                              *)

\* the sum of the first n noise draws
RECURSIVE NoiseSum(_)
NoiseSum(n) == IF n = 0 THEN 0 ELSE NoiseSum(n - 1) + draws[n].noise

\* C17: time and price_history are a function of the noise draws alone,
\* whatever was ordered and whatever was sold: after n calls time is n and
\* the k-th recorded price is 600 plus the first k entries of the delta
\* cycle plus the first k noise draws.  Two environments that get the same
\* noise draws therefore have the same time and the same price_history
\* after every step, whichever orders and sales draws each of them gets.
PriceFollowsNoiseAlone ==
    /\ time = Len(draws)
    /\ Len(price_history) = Len(draws) + 1
    /\ \A k \in 0..Len(draws) :
           price_history[k + 1] = 600 + DeltaSum(k) + NoiseSum(k)

\* three calls with orders and sales that moved the stock off the path of
\* an environment that gets no orders
OrdersMovedStockOnly ==
    /\ time = 3
    /\ action.buy = 10
    /\ daily_sales = 3
    /\ stock > 50
    /\ price = 600 + DeltaSum(3) + NoiseSum(3)

----------------------------------------------------------------------------
(* Composition of runs.                                                    *)

\* the agent, the environment and the percept after n iterations of one
\* uninterrupted run on a fresh simulation that gets the first n draws
RECURSIVE Iterated(_)
Iterated(n) ==
    IF n = 0
    THEN [average_price |-> DecInt(600), buy_history |-> <<>>, total_spent |-> 0,
          time |-> 0, stock |-> 50, price |-> 600,
          stock_history |-> <<50>>, price_history |-> <<600>>,
          percept |-> [price |-> 600, stock |-> 50]]
    ELSE LET s     == Iterated(n - 1)
             avg   == UpdatedAverage(s.average_price, s.percept.price)
             tobuy == Tobuy(s.percept.price, s.percept.stock, avg)
             left  == NewStock(s.stock, tobuy, Sold(n))
             cost  == NewPrice(s.price, s.time + 1, draws[n].noise)
         IN  [average_price |-> avg,
              buy_history   |-> Append(s.buy_history, tobuy),
              total_spent   |-> Spent(s.total_spent, tobuy, s.percept.price),
              time          |-> s.time + 1,
              stock         |-> left,
              price         |-> cost,
              stock_history |-> Recorded(s.stock_history, left),
              price_history |-> Recorded(s.price_history, cost),
              percept       |-> [price |-> cost, stock |-> left]]

\* C18: runs compose: however the iterations made so far were split into
\* run calls, the agent, the environment and the stored percept are those
\* of one run of that many iterations on the same draws; a later run goes
\* on from the stored percept.
RunsCompose ==
    pc \in {"idle", "for"} =>
        LET s == Iterated(Len(draws))
        IN  /\ average_price = s.average_price
            /\ buy_history = s.buy_history
            /\ total_spent = s.total_spent
            /\ time = s.time
            /\ stock = s.stock
            /\ price = s.price
            /\ stock_history = s.stock_history
            /\ price_history = s.price_history
            /\ percept = s.percept

\* run(2) has returned after an earlier run(1)
RunTwoAfterRunOne ==
    /\ pc = "idle"
    /\ steps = 2
    /\ time = 3
    /\ Len(buy_history) = 3

====
